---- MODULE Spec2Model ----
(***************************************************************************)
(* Verification model of the react-miami-game presence synchronisation.    *)
(*                                                                         *)
(*   Discovery Broker   apps/game-server/src/moq-broker-party.ts           *)
(*   Resilient Channel  hang-framework-docs/connection-documentation.md    *)
(*   Peer Session Manager  apps/game-front/src/hooks/useMoQGameStream.ts   *)
(*   Presence Reconciler   unnamed/part_001 (OtherPlayers, OtherPlayer)    *)
(*                                                                         *)
(* Every handler of the code is one action: JavaScript runs a handler to   *)
(* completion before the next event is taken.                              *)
(***************************************************************************)
EXTENDS Integers, Sequences, FiniteSets, TLC

(***************************************************************************)
(* Bounds and input domains                                                *)
(***************************************************************************)
\* Date.now() takes the values 0..MaxClock.
MaxClock == 1

\* Consecutive connection failures are counted up to MaxFailures (further
\* failures still happen, the count stays).
MaxFailures == 7

\* #tick only matters by changing: it is counted modulo TickWrap.
TickWrap == 2

\* An endpoint change cancels an attempt only while fewer than MaxAbandoned
\* cancelled attempts are unresolved.
MaxAbandoned == 1

\* A Watch.Broadcast is created for a participant only while fewer than
\* MaxOpen of them are open for it.
MaxOpen == 2

\* The frames of a mounted OtherPlayer add up to at most MaxElapsed ms.
MaxElapsed == 200

\* JavaScript's undefined: an absent field, an absent Map entry, an unset
\* connection state.
Undefined == "undefined"

\* Connections of the room (a closed slot may be reused by a new connection).
Conns == {"c1", "c2"}

\* Participant ids, display names and MoQ paths messages may carry.
Ids == {"p1", "p2"}
PlayerNames == {"n1"}
MoqPaths == {"m1"}

\* usePartySocket({ query: { id: playerId } }): the player behind a connection.
playerId(c) == IF c = "c1" THEN "p1" ELSE "p2"

(***************************************************************************)
(* State                                                                   *)
(***************************************************************************)
VARIABLES
    participants,   \* MoQBrokerParty.participants: a Map in insertion order
    connections,    \* room.getConnections(): the open connections
    connState,      \* connection.state.participantId of each connection
    now,            \* Date.now()
    sent,           \* what the last handler sent, per connection
    last,           \* the last handler that ran: [op, conn, msg]
    lastEvent,      \* per id, the most recent join/leave message: none|join|leave
    joinedBy        \* per id, the open connections that joined with it and have
                    \* not sent a leave for it since

brokerVars ==
    <<participants, connections, connState, now, sent, last, lastEvent, joinedBy>>

\* Resilient Channel: the Connection of @kixelated/hang, as documented.
VARIABLES
    supported,      \* typeof WebTransport !== "undefined"
    url,            \* Connection.url: the relay endpoint, or undefined
    status,         \* Connection.status
    established,    \* Connection.established: the endpoint of the live connection
    tick,           \* Connection.#tick, counted modulo TickWrap
    currentDelay,   \* Connection.#delay: the current backoff delay
    timer,          \* whether a retry timer (effect.timer) is pending
    closed,         \* whether close() was called
    failures,       \* connection failures since the last success, up to MaxFailures
    abandoned,      \* cancelled Moq.connect calls that have not resolved yet
    leaked,         \* connections that opened and that nothing will close
    chLast          \* the last step of the channel

channelVars ==
    <<supported, url, status, established, tick, currentDelay, timer, closed,
      failures, abandoned, leaked, chLast>>

(***************************************************************************)
(* State of the Peer Session Manager (useMoQGameStream, one hook instance) *)
(***************************************************************************)
VARIABLES
    moqConnection,      \* whether moqConnectionRef.current is set
    isMoQReady,         \* the isMoQReady state
    participantsRef,    \* participantsRef.current; its ids are prevParticipantsRef
    remoteBroadcasts,   \* the keys of remoteBroadcastsRef.current
    openSubs,           \* id -> Watch.Broadcast objects created and not closed
    awaiting,           \* id -> createWatchBroadcast calls in their 100 ms wait
    timers,             \* pending retry timers of createWatchBroadcast
    lastOpens,          \* the createWatchBroadcast calls of the last step
    peerLast,           \* the last step of the hook
    session             \* unmounted, the checkConnection wait, the Connection
                        \* and the Publish.Broadcast of initMoQ

peerVars ==
    <<moqConnection, isMoQReady, participantsRef, remoteBroadcasts, openSubs,
      awaiting, timers, lastOpens, peerLast, session>>

(***************************************************************************)
(* State of the Presence Reconciler (OtherPlayers and its OtherPlayer      *)
(* components) and of the hook's remoteStatesRef that feeds it             *)
(***************************************************************************)
VARIABLES
    playerIds,      \* useServerStatus: the ids rendered, in order
    presenceRef,    \* presenceRef.current: id -> the latest stored sample
    remoteStates,   \* remoteStatesRef.current of the hook: id -> parsed payload
    moqSubscribed,  \* whether the onIncoming callback of OtherPlayers is set
    entries,        \* id -> carVectors and playerRef.position of a mounted OtherPlayer
    lastApply,      \* the last step other than a frame
    forceMoQ        \* process.env.NEXT_PUBLIC_MOQ_FORCE === "true"

reconVars ==
    <<playerIds, presenceRef, remoteStates, moqSubscribed, entries, lastApply,
      forceMoQ>>

\* debugEvents of the hook: the callbacks of onIncoming.
VARIABLES
    incomingCbs,    \* debugCallbacks.current.incoming: a Set in insertion order
    notified        \* the last forEach over it: who was called, and with what stored

eventVars == <<incomingCbs, notified>>

vars == <<brokerVars, channelVars, peerVars, reconVars, eventVars>>

(***************************************************************************)
(* Messages: the text a connection sends, as JSON.parse sees it            *)
(***************************************************************************)
\* Text that JSON.parse rejects.
Unparseable ==
    [parses |-> FALSE, type |-> Undefined, id |-> Undefined,
     playerName |-> Undefined, moqPath |-> Undefined]

NoMsg == Unparseable

JoinMsg(i, n, m) ==
    [parses |-> TRUE, type |-> "join", id |-> i, playerName |-> n, moqPath |-> m]

IdMsg(t, i) ==
    [parses |-> TRUE, type |-> t, id |-> i,
     playerName |-> Undefined, moqPath |-> Undefined]

\* What a connection may send: text that does not parse, the messages of type
\* BrokerMessage, and objects that are not of that type (a join that lacks its
\* playerName or its moqPath, a leave or heartbeat without id, an unknown
\* type). A join always names an id; request_peers names the sender's.
Messages ==
    {Unparseable}
    \cup {JoinMsg(i, n, m) : i \in Ids, n \in PlayerNames, m \in MoqPaths}
    \cup {JoinMsg(i, Undefined, m) : i \in Ids, m \in MoqPaths}
    \cup {JoinMsg(i, n, Undefined) : i \in Ids, n \in PlayerNames}
    \cup {IdMsg(t, i) : t \in {"leave", "heartbeat"}, i \in Ids \cup {Undefined}}
    \cup {IdMsg("request_peers", "p1")}
    \cup {IdMsg("bogus", Undefined)}

\* A message of type BrokerMessage (moq-broker-party.ts:29-33).
WellFormed(msg) ==
    /\ msg.parses
    /\ msg.type \in {"join", "leave", "heartbeat", "request_peers"}
    /\ msg.id # Undefined
    /\ msg.type = "join" => msg.playerName # Undefined /\ msg.moqPath # Undefined

(***************************************************************************)
(* JavaScript Map, in insertion order                                      *)
(***************************************************************************)
Keys(m) == {m[i].id : i \in 1..Len(m)}

MapHas(m, k) == k \in Keys(m)

MapGet(m, k) == m[CHOOSE i \in 1..Len(m) : m[i].id = k]

\* Map.set: a present key keeps its place, a new key goes last.
MapSet(m, k, v) ==
    IF MapHas(m, k)
    THEN [i \in 1..Len(m) |-> IF m[i].id = k THEN v ELSE m[i]]
    ELSE Append(m, v)

\* Mutant: Map.clear() in place of Map.delete(key).
MapDelete_Clear(m, k) == <<>>

MapDelete(m, k) == SelectSeq(m, LAMBDA p : p.id # k)

\* if (x): undefined is falsy, every id of the model is a non-empty string.
Truthy(x) == x # Undefined

(***************************************************************************)
(* Discovery Broker                                                        *)
(***************************************************************************)
NoSends == [c \in Conns |-> <<>>]

\* interface BrokerUpdate
BrokerUpdate(parts, conns) ==
    [type |-> "broker_update",
     participants |-> parts,
     stats |-> [totalConnections |-> Cardinality(conns),
                activeCount |-> Len(parts)]]

\* Mutant: the broadcast loop stops after the first connection.
broadcastUpdate_FirstOnly(parts, conns) ==
    [c \in Conns |->
        IF conns # {} /\ c = CHOOSE d \in conns : TRUE
        THEN <<BrokerUpdate(parts, conns)>> ELSE <<>>]

sendBrokerUpdate(parts, conns, connection) ==
    [c \in Conns |-> IF c = connection THEN <<BrokerUpdate(parts, conns)>> ELSE <<>>]

broadcastUpdate(parts, conns) ==
    [c \in Conns |-> IF c \in conns THEN <<BrokerUpdate(parts, conns)>> ELSE <<>>]

handleJoin(msg, connection) ==
    LET participant == [id |-> msg.id, playerName |-> msg.playerName,
                        moqPath |-> msg.moqPath, joinedAt |-> now, lastSeen |-> now]
    IN  /\ participants' = MapSet(participants, msg.id, participant)
        /\ connState' = [connState EXCEPT ![connection] = msg.id]
        /\ sent' = broadcastUpdate(participants', connections)

\* Mutant: the leave is logged and broadcast, the entry is not deleted.
handleLeave_KeepsEntry(participantId) ==
    /\ participants' = participants
    /\ sent' = IF MapHas(participants, participantId)
               THEN broadcastUpdate(participants', connections') ELSE NoSends

handleLeave(participantId) ==
    IF MapHas(participants, participantId)
    THEN /\ participants' = MapDelete(participants, participantId)
         /\ sent' = broadcastUpdate(participants', connections')
    ELSE /\ participants' = participants
         /\ sent' = NoSends

\* Mutant: a heartbeat broadcasts like the other handlers.
handleHeartbeat_Broadcasts(participantId) ==
    /\ participants' =
          IF MapHas(participants, participantId)
          THEN MapSet(participants, participantId,
                      [MapGet(participants, participantId) EXCEPT !.lastSeen = now])
          ELSE participants
    /\ sent' = broadcastUpdate(participants', connections')

handleHeartbeat(participantId) ==
    /\ participants' =
          IF MapHas(participants, participantId)
          THEN MapSet(participants, participantId,
                      [MapGet(participants, participantId) EXCEPT !.lastSeen = now])
          ELSE participants
    /\ sent' = NoSends

\* The ids a join or leave message names.
NoteEvent(msg) ==
    IF msg.parses /\ msg.type \in {"join", "leave"} /\ msg.id \in Ids
    THEN [lastEvent EXCEPT ![msg.id] = msg.type]
    ELSE lastEvent

\* Mutant: a new connection waits for the next change.
onConnect_Silent(connection) ==
    /\ connection \notin connections
    /\ connections' = connections \cup {connection}
    /\ connState' = [connState EXCEPT ![connection] = Undefined]
    /\ sent' = NoSends
    /\ last' = [op |-> "connect", conn |-> connection, msg |-> NoMsg]
    /\ UNCHANGED <<participants, now, lastEvent>>

onConnect(connection) ==
    /\ connection \notin connections
    /\ connections' = connections \cup {connection}
    /\ connState' = [connState EXCEPT ![connection] = Undefined]
    /\ sent' = sendBrokerUpdate(participants, connections', connection)
    /\ last' = [op |-> "connect", conn |-> connection, msg |-> NoMsg]
    /\ UNCHANGED <<participants, now, lastEvent>>

onMessage(message, sender) ==
    /\ sender \in connections
    /\ last' = [op |-> "message", conn |-> sender, msg |-> message]
    /\ lastEvent' = NoteEvent(message)
    /\ UNCHANGED <<connections, now>>
    /\ IF ~message.parses
       THEN \* JSON.parse throws, the catch logs
            /\ sent' = NoSends
            /\ UNCHANGED <<participants, connState>>
       ELSE CASE message.type = "join" ->
                    handleJoin(message, sender)
              [] message.type = "leave" ->
                    /\ handleLeave(message.id)
                    /\ UNCHANGED connState
              [] message.type = "heartbeat" ->
                    /\ handleHeartbeat(message.id)
                    /\ UNCHANGED connState
              [] message.type = "request_peers" ->
                    /\ sent' = sendBrokerUpdate(participants, connections, sender)
                    /\ UNCHANGED <<participants, connState>>
              [] OTHER ->
                    /\ sent' = NoSends
                    /\ UNCHANGED <<participants, connState>>

\* Mutant: a close without the implicit leave.
onClose_NoLeave(connection) ==
    /\ connection \in connections
    /\ connections' = connections \ {connection}
    /\ connState' = [connState EXCEPT ![connection] = Undefined]
    /\ last' = [op |-> "close", conn |-> connection,
                msg |-> IdMsg("close", connState[connection])]
    /\ participants' = participants
    /\ sent' = NoSends
    /\ UNCHANGED <<now, lastEvent>>

onClose(connection) ==
    /\ connection \in connections
    /\ connections' = connections \ {connection}
    /\ connState' = [connState EXCEPT ![connection] = Undefined]
    /\ last' = [op |-> "close", conn |-> connection,
                msg |-> IdMsg("close", connState[connection])]
    /\ IF Truthy(connState[connection])
       THEN handleLeave(connState[connection])
       ELSE /\ participants' = participants
            /\ sent' = NoSends
    /\ UNCHANGED <<now, lastEvent>>

\* Time passes between two handlers.
Tick ==
    /\ now < MaxClock
    /\ now' = now + 1
    /\ UNCHANGED <<participants, connections, connState, sent, last, lastEvent>>

(***************************************************************************)
(* The client of a connection (useMoQGameStream.ts, onMessage)             *)
(***************************************************************************)
\* Mutant: the client keeps the list as the broker sent it.
otherParticipants_Unfiltered(c, update) == update.participants

\* data.participants.filter(p => p.id !== playerId)
otherParticipants(c, update) ==
    SelectSeq(update.participants, LAMBDA p : p.id # playerId(c))

BrokerInit ==
    /\ participants = <<>>
    /\ connections = {}
    /\ connState = [c \in Conns |-> Undefined]
    /\ now = 0
    /\ sent = NoSends
    /\ last = [op |-> "init", conn |-> Undefined, msg |-> NoMsg]
    /\ lastEvent = [i \in Ids |-> "none"]
    /\ joinedBy = [i \in Ids |-> {}]

Connect ==
    \E c \in Conns :
        onConnect(c) /\ UNCHANGED <<joinedBy, channelVars, peerVars, reconVars, eventVars>>
Message ==
    \E c \in Conns, m \in Messages :
        onMessage(m, c) /\ UNCHANGED <<joinedBy, channelVars, peerVars, reconVars, eventVars>>
Close ==
    \E c \in Conns :
        onClose(c) /\ UNCHANGED <<joinedBy, channelVars, peerVars, reconVars, eventVars>>
ClockTick == Tick /\ UNCHANGED <<joinedBy, channelVars, peerVars, reconVars, eventVars>>

BrokerNext == Connect \/ Message \/ Close \/ ClockTick

\* The joins and leaves of well-behaved clients, any id on any connection.
BindMessages ==
    {JoinMsg(i, n, m) : i \in Ids, n \in PlayerNames, m \in MoqPaths}
    \cup {IdMsg("leave", i) : i \in Ids}

\* The connections bound to each id after connection c sent msg.
NoteJoin(msg, c) ==
    [i \in Ids |->
        IF msg.id # i THEN joinedBy[i]
        ELSE IF msg.type = "join" THEN joinedBy[i] \cup {c}
        ELSE joinedBy[i] \ {c}]

\* The same handlers, with the record of who joined as whom.
BindConnect ==
    \E c \in Conns :
        onConnect(c) /\ UNCHANGED <<joinedBy, channelVars, peerVars, reconVars, eventVars>>
BindMessage ==
    \E c \in Conns, m \in BindMessages :
        /\ onMessage(m, c)
        /\ joinedBy' = NoteJoin(m, c)
        /\ UNCHANGED <<channelVars, peerVars, reconVars, eventVars>>
BindClose ==
    \E c \in Conns :
        /\ onClose(c)
        /\ joinedBy' = [i \in Ids |-> joinedBy[i] \ {c}]
        /\ UNCHANGED <<channelVars, peerVars, reconVars, eventVars>>

BindingNext == BindConnect \/ BindMessage \/ BindClose

(***************************************************************************)
(* Resilient Channel (connection-documentation.md)                         *)
(***************************************************************************)
\* ConnectionProps and their defaults; useMoQGameStream passes url and reload.
Urls == {"relayA", "relayB"}
\* Mutant: no retry after a failure.
reload_Off == FALSE

reload == TRUE
delay == 1000
maxDelay == 30000

Min(a, b) == IF a < b THEN a ELSE b

\* Mutant: the delay doubles without the cap.
Backoff_Uncapped(d) == d * 2

\* Math.min(#delay * 2, maxDelay)
Backoff(d) == Min(d * 2, maxDelay)

\* Mutant: the effect does not look for WebTransport.
ConnectStatus_IgnoresSupport(u) ==
    IF u = Undefined THEN "disconnected" ELSE "connecting"

\* #connect(effect): the status a run of the effect leaves, for endpoint u.
\* No WebTransport: "unsupported", exit early. No url: nothing to connect to.
ConnectStatus(u) ==
    IF ~supported THEN "unsupported"
    ELSE IF u = Undefined THEN "disconnected"
    ELSE "connecting"

\* Moq.connect(url) succeeded: the connection is established, the backoff
\* is reset.
ConnectOk ==
    /\ status = "connecting"
    /\ status' = "connected"
    /\ established' = url
    /\ currentDelay' = delay
    /\ failures' = 0
    /\ chLast' = "ok"
    /\ UNCHANGED <<supported, url, tick, timer, closed, abandoned, leaked>>

\* The catch block, or connection.closed(): with reload, a timer is set for
\* the next attempt and #delay doubles up to maxDelay.
Failure ==
    /\ status' = "disconnected"
    /\ established' = Undefined
    /\ timer' = reload
    /\ currentDelay' = IF reload THEN Backoff(currentDelay) ELSE currentDelay
    /\ failures' = IF failures < MaxFailures THEN failures + 1 ELSE failures
    /\ UNCHANGED <<supported, url, tick, closed, abandoned, leaked>>

ConnectFail == status = "connecting" /\ Failure /\ chLast' = "fail"

ConnectionLost == status = "connected" /\ Failure /\ chLast' = "lost"

\* The retry timer fires: #tick changes and the effect runs again.
TimerFire ==
    /\ timer
    /\ timer' = FALSE
    /\ tick' = (tick + 1) % TickWrap
    /\ status' = ConnectStatus(url)
    /\ chLast' = "timer"
    /\ UNCHANGED <<supported, url, established, currentDelay, closed, failures,
                   abandoned, leaked>>

\* The effect's cleanup while an attempt is in flight: the attempt is cancelled.
Cancel == IF status = "connecting" THEN abandoned + 1 ELSE abandoned

\* connection.url.set(u): the effect's cleanup closes the old connection or
\* attempt and drops its timer, then the effect runs for the new endpoint.
\* After close() the signal still changes, and nothing reacts to it.
\* An attempt in flight is cancelled (Promise.race([cancel, pending])): its
\* Moq.connect goes on unobserved until it resolves.
SetUrl(u) ==
    /\ u # url
    /\ status = "connecting" => abandoned < MaxAbandoned
    /\ url' = u
    /\ IF closed
       THEN UNCHANGED <<established, timer, status, abandoned>>
       ELSE /\ established' = Undefined
            /\ timer' = FALSE
            /\ abandoned' = Cancel
            /\ status' = ConnectStatus(u)
    /\ chLast' = "seturl"
    /\ UNCHANGED <<supported, tick, currentDelay, closed, failures, leaked>>

\* close(): signals.close() runs the cleanup and ends the effect.
\* Mutant: close() leaves a pending retry timer in place.
ChannelClose_KeepsTimer ==
    /\ closed' = TRUE
    /\ established' = Undefined
    /\ timer' = timer
    /\ abandoned' = Cancel
    /\ status' = IF supported THEN "disconnected" ELSE "unsupported"
    /\ chLast' = "close"
    /\ UNCHANGED <<supported, url, tick, currentDelay, failures, leaked>>

ChannelClose ==
    /\ closed' = TRUE
    /\ established' = Undefined
    /\ timer' = FALSE
    /\ abandoned' = Cancel
    /\ status' = IF supported THEN "disconnected" ELSE "unsupported"
    /\ chLast' = "close"
    /\ UNCHANGED <<supported, url, tick, currentDelay, failures, leaked>>

\* Mutant: a cancelled attempt that connects later is left open.
AbandonedOk_NoClose ==
    /\ abandoned > 0
    /\ abandoned' = abandoned - 1
    /\ leaked' = leaked + 1
    /\ chLast' = "lateok"
    /\ UNCHANGED <<supported, url, status, established, tick, currentDelay, timer,
                   closed, failures>>

\* A cancelled attempt connects after all: pending.then((conn) => conn.close()).
AbandonedOk ==
    /\ abandoned > 0
    /\ abandoned' = abandoned - 1
    /\ leaked' = leaked
    /\ chLast' = "lateok"
    /\ UNCHANGED <<supported, url, status, established, tick, currentDelay, timer,
                   closed, failures>>

\* A cancelled attempt fails after all: .catch(() => {}).
AbandonedFail ==
    /\ abandoned > 0
    /\ abandoned' = abandoned - 1
    /\ chLast' = "latefail"
    /\ UNCHANGED <<supported, url, status, established, tick, currentDelay, timer,
                   closed, failures, leaked>>

\* new Connection(props): the effect has run once.
ChannelInit ==
    /\ supported \in BOOLEAN
    /\ url \in Urls \cup {Undefined}
    /\ status = ConnectStatus(url)
    /\ established = Undefined
    /\ tick = 0
    /\ currentDelay = delay
    /\ timer = FALSE
    /\ closed = FALSE
    /\ failures = 0
    /\ abandoned = 0
    /\ leaked = 0
    /\ chLast = "init"

\* A channel that was given no endpoint.
ChannelUnused ==
    /\ supported = TRUE
    /\ url = Undefined
    /\ status = "disconnected"
    /\ established = Undefined
    /\ tick = 0
    /\ currentDelay = delay
    /\ timer = FALSE
    /\ closed = FALSE
    /\ failures = 0
    /\ abandoned = 0
    /\ leaked = 0
    /\ chLast = "init"

ChConnectOk == ConnectOk /\ UNCHANGED <<brokerVars, peerVars, reconVars, eventVars>>
ChConnectFail == ConnectFail /\ UNCHANGED <<brokerVars, peerVars, reconVars, eventVars>>
ChConnectionLost == ConnectionLost /\ UNCHANGED <<brokerVars, peerVars, reconVars, eventVars>>
ChTimerFire == TimerFire /\ UNCHANGED <<brokerVars, peerVars, reconVars, eventVars>>
ChSetUrl == \E u \in Urls \cup {Undefined} : SetUrl(u) /\ UNCHANGED <<brokerVars, peerVars, reconVars, eventVars>>
ChClose == ChannelClose /\ UNCHANGED <<brokerVars, peerVars, reconVars, eventVars>>
ChAbandonedOk == AbandonedOk /\ UNCHANGED <<brokerVars, peerVars, reconVars, eventVars>>
ChAbandonedFail == AbandonedFail /\ UNCHANGED <<brokerVars, peerVars, reconVars, eventVars>>

ChannelNext ==
    \/ ChConnectOk \/ ChConnectFail \/ ChConnectionLost \/ ChTimerFire
    \/ ChSetUrl \/ ChClose \/ ChAbandonedOk \/ ChAbandonedFail

\* A channel with an endpoint whose attempts all fail.
ChSetEndpoint == \E u \in Urls : SetUrl(u) /\ UNCHANGED <<brokerVars, peerVars, reconVars, eventVars>>

FailingNext ==
    ChConnectFail \/ ChTimerFire \/ ChSetEndpoint \/ ChClose \/ ChAbandonedFail

(***************************************************************************)
(* Peer Session Manager (useMoQGameStream.ts)                              *)
(***************************************************************************)
\* The hook of the player behind connection c1.
selfId == playerId("c1")

\* `game/${roomId}/${playerId}`
PathOf(i) == "game/room/" \o i

ourPath == PathOf(selfId)

\* The moqPath a participant of a broker update carries: its own, the local
\* player's, or none.
PeerPaths(i) == {PathOf(i), ourPath, Undefined}

Participant(i, m) == [id |-> i, moqPath |-> m]

\* The participant lists of the broker updates, one entry per id. The local
\* player is listed with its own path or not at all.
UpdateLists ==
    {<<>>, <<Participant(selfId, ourPath)>>}
    \cup {<<Participant(i, m)>> : i \in Ids \ {selfId}, m \in UNION {PeerPaths(j) : j \in Ids}}
    \cup {<<Participant(selfId, ourPath), Participant(i, m)>> :
            i \in Ids \ {selfId}, m \in UNION {PeerPaths(j) : j \in Ids}}

IdsOf(list) == {list[k].id : k \in DOMAIN list}

\* if (retryCount < 3)
maxRetries == 3

\* 1000 * (retryCount + 1)
retryBase == 1000

RetryDelay(retryCount) == retryBase * (retryCount + 1)

\* Mutant: the path of a participant is not compared with the local path.
CreateOutcome_NoPathCheck(participant, throws) ==
    IF ~moqConnection THEN "noconn"
    ELSE IF participant.id = selfId THEN "self"
    ELSE IF participant.moqPath = Undefined THEN "failed"
    ELSE IF throws THEN "failed"
    ELSE "created"

\* createWatchBroadcast up to its await: the early returns, the try block
\* (participant.moqPath.split throws without a moqPath; new Watch.Broadcast
\* may throw), the Watch.Broadcast created.
CreateOutcome(participant, throws) ==
    IF ~moqConnection THEN "noconn"
    ELSE IF participant.id = selfId THEN "self"
    ELSE IF participant.moqPath = Undefined THEN "failed"
    ELSE IF participant.moqPath = ourPath THEN "selfpath"
    ELSE IF throws THEN "failed"
    ELSE "created"

\* One call createWatchBroadcast(participant, retryCount).
Attempt(participant, retryCount, throws) ==
    [id |-> participant.id, moqPath |-> participant.moqPath, retryCount |-> retryCount,
     outcome |-> CreateOutcome(participant, throws)]

\* The catch block: a failed call sets a timer while retryCount < 3.
RetryTimers(calls) ==
    {[id |-> a.id, moqPath |-> a.moqPath, retryCount |-> a.retryCount,
      delay |-> RetryDelay(a.retryCount)] :
        a \in {b \in calls : b.outcome = "failed" /\ b.retryCount < maxRetries}}

Created(calls, i) == Cardinality({a \in calls : a.id = i /\ a.outcome = "created"})

\* The effect of the calls of one step: each Watch.Broadcast created is open
\* and its call waits 100 ms; failed calls set their timers. Timers of the
\* same participant and retry count are not told apart.
CreateWatchBroadcasts(calls, fired) ==
    /\ \A i \in Ids : openSubs[i] + Created(calls, i) <= MaxOpen
    /\ openSubs' = [i \in Ids |-> openSubs[i] + Created(calls, i)]
    /\ awaiting' = [i \in Ids |-> awaiting[i] + Created(calls, i)]
    /\ timers' = (timers \ fired) \cup RetryTimers(calls)
    /\ lastOpens' = calls

\* onMessage, broker_update: the list without the local player replaces
\* participantsRef and prevParticipantsRef; a participant not known before
\* gets createWatchBroadcast if the transport is ready; a participant no
\* longer listed gets cleanupWatchBroadcast, which closes and forgets the
\* Watch.Broadcast that remoteBroadcastsRef holds for it.
hookOnMessage(list, throws) ==
    LET update == [type |-> "broker_update", participants |-> list]
        others == otherParticipants("c1", update)
        joined == {k \in DOMAIN others : others[k].id \notin IdsOf(participantsRef)}
        gone == IdsOf(participantsRef) \ IdsOf(others)
        calls == IF moqConnection /\ isMoQReady
                 THEN {Attempt(others[k], 0, throws) : k \in joined}
                 ELSE {}
    IN  /\ participantsRef' = others
        /\ \A i \in Ids : openSubs[i] + Created(calls, i) <= MaxOpen
        /\ openSubs' = [i \in Ids |->
                          IF i \in gone /\ i \in remoteBroadcasts
                          THEN openSubs[i] - 1
                          ELSE openSubs[i] + Created(calls, i)]
        /\ awaiting' = [i \in Ids |-> awaiting[i] + Created(calls, i)]
        /\ timers' = timers \cup RetryTimers(calls)
        /\ lastOpens' = calls
        /\ remoteBroadcasts' = remoteBroadcasts \ gone
        /\ peerLast' = "update"
        /\ UNCHANGED <<moqConnection, isMoQReady, session>>

\* createWatchBroadcast after its await: the Watch.Broadcast is stored unless
\* remoteBroadcastsRef already holds one for the participant.
AwaitDone(i) ==
    /\ awaiting[i] > 0
    /\ awaiting' = [awaiting EXCEPT ![i] = @ - 1]
    /\ remoteBroadcasts' = remoteBroadcasts \cup {i}
    /\ lastOpens' = {}
    /\ peerLast' = "opened"
    /\ UNCHANGED <<moqConnection, isMoQReady, participantsRef, openSubs, timers,
                   session>>

\* A retry timer fires: createWatchBroadcast(participant, retryCount + 1).
RetryFire(t, throws) ==
    /\ t \in timers
    /\ CreateWatchBroadcasts(
          {Attempt(Participant(t.id, t.moqPath), t.retryCount + 1, throws)}, {t})
    /\ peerLast' = "retry"
    /\ UNCHANGED <<moqConnection, isMoQReady, participantsRef, remoteBroadcasts,
                   session>>

\* initMoQ after its wait for "connected": setIsMoQReady(true).
\* checkConnection sees "connected", which a closed Connection never shows;
\* the Room and the Publish.Broadcast are created.
MoQReady ==
    /\ moqConnection
    /\ ~isMoQReady
    /\ session.connection = "open"
    /\ isMoQReady' = TRUE
    /\ session' = [session EXCEPT !.polling = FALSE, !.localBroadcast = "open"]
    /\ lastOpens' = {}
    /\ peerLast' = "ready"
    /\ UNCHANGED <<moqConnection, participantsRef, remoteBroadcasts, openSubs,
                   awaiting, timers>>

Closed(handle) == IF handle = "open" THEN "closed" ELSE handle

\* The cleanup of the initMoQ effect, at unmount: localBroadcastRef,
\* moqRoomRef and moqConnectionRef are closed if set. Nothing else is touched.
Teardown ==
    /\ ~session.unmounted
    /\ session' = [session EXCEPT !.unmounted = TRUE,
                                  !.connection = Closed(@),
                                  !.localBroadcast = Closed(@)]
    /\ lastOpens' = {}
    /\ peerLast' = "teardown"
    /\ UNCHANGED <<moqConnection, isMoQReady, participantsRef, remoteBroadcasts,
                   openSubs, awaiting, timers>>

\* After the first render and its effect: with enabled, initMoQ has created
\* the Connection.
PeerInit ==
    /\ moqConnection \in BOOLEAN
    /\ isMoQReady = FALSE
    /\ participantsRef = <<>>
    /\ remoteBroadcasts = {}
    /\ openSubs = [i \in Ids |-> 0]
    /\ awaiting = [i \in Ids |-> 0]
    /\ timers = {}
    /\ lastOpens = {}
    /\ peerLast = "init"
    /\ session = [unmounted |-> FALSE,
                  polling |-> moqConnection,
                  connection |-> IF moqConnection THEN "open" ELSE "none",
                  localBroadcast |-> "none"]

PeerUnused ==
    /\ moqConnection = FALSE
    /\ isMoQReady = FALSE
    /\ participantsRef = <<>>
    /\ remoteBroadcasts = {}
    /\ openSubs = [i \in Ids |-> 0]
    /\ awaiting = [i \in Ids |-> 0]
    /\ timers = {}
    /\ lastOpens = {}
    /\ peerLast = "init"
    /\ session = [unmounted |-> FALSE, polling |-> FALSE, connection |-> "none",
                  localBroadcast |-> "none"]

\* The socket of usePartySocket delivers messages while the hook is mounted.
PeerUpdate ==
    \E list \in UpdateLists, throws \in BOOLEAN :
        /\ ~session.unmounted
        /\ hookOnMessage(list, throws)
        /\ UNCHANGED <<brokerVars, channelVars, reconVars, eventVars>>
PeerAwaitDone == \E i \in Ids : AwaitDone(i) /\ UNCHANGED <<brokerVars, channelVars, reconVars, eventVars>>
PeerRetryFire ==
    \E t \in timers, throws \in BOOLEAN :
        RetryFire(t, throws) /\ UNCHANGED <<brokerVars, channelVars, reconVars, eventVars>>
PeerMoQReady == MoQReady /\ UNCHANGED <<brokerVars, channelVars, reconVars, eventVars>>
PeerTeardown == Teardown /\ UNCHANGED <<brokerVars, channelVars, reconVars, eventVars>>

PeerNext ==
    PeerUpdate \/ PeerAwaitDone \/ PeerRetryFire \/ PeerMoQReady \/ PeerTeardown

(***************************************************************************)
(* Presence Reconciler (unnamed/part_001)                                  *)
(***************************************************************************)
\* Frame lengths in ms (useFrame's delta is in seconds). The shortest one
\* halves the distance to the predicted position.
Deltas == {50, 100, 200}

\* Positions are counted in 1/Unit mm, and velocities in mm/ms, so that the
\* halvings of MaxElapsed ms of frames are exact, as they are in binary
\* floating point. Only the x components are modelled.
Unit == 2^(MaxElapsed \div 50)

\* The fields of PresenceType that are modelled.
Fields == {"timestamp", "pos", "vel", "wheel"}

\* A PresenceType value; has is the set of its fields and ok tells whether
\* it has all the fields of the schema.
Sample(t, x, v, w) ==
    [ok |-> TRUE, has |-> Fields, timestamp |-> t, pos |-> x * Unit, vel |-> v,
     wheel |-> w]

\* A parsed payload that is not a PresenceType, such as {}.
Junk ==
    [ok |-> FALSE, has |-> {}, timestamp |-> 0, pos |-> 0, vel |-> 0, wheel |-> 0]

\* A partial sample of sync-presence: the fields fs of sample x.
Partial(fs, x) ==
    [ok |-> fs = Fields, has |-> fs,
     timestamp |-> IF "timestamp" \in fs THEN x.timestamp ELSE 0,
     pos |-> IF "pos" \in fs THEN x.pos ELSE 0,
     vel |-> IF "vel" \in fs THEN x.vel ELSE 0,
     wheel |-> IF "wheel" \in fs THEN x.wheel ELSE 0]

\* Mutant: the delta replaces the stored sample.
Spread_Replace(currentP, presence) == presence

\* { ...currentP, ...presence }
Spread(currentP, presence) ==
    [ok |-> currentP.has \cup presence.has = Fields,
     has |-> currentP.has \cup presence.has,
     timestamp |-> IF "timestamp" \in presence.has THEN presence.timestamp
                                                   ELSE currentP.timestamp,
     pos |-> IF "pos" \in presence.has THEN presence.pos ELSE currentP.pos,
     vel |-> IF "vel" \in presence.has THEN presence.vel ELSE currentP.vel,
     wheel |-> IF "wheel" \in presence.has THEN presence.wheel ELSE currentP.wheel]

SampleB == Sample(100, 0, 1, 0)
SampleSameTs == Sample(100, 50, 0, 1)
SampleOlder == Sample(50, 50, 1, 0)

Samples == {SampleB, SampleSameTs, SampleOlder}

\* A first sample whose timestamp is the initial originTimestamp.
SampleZero == Sample(0, 50, 1, 1)

\* A delta that carries the control values only.
WheelDelta == Partial({"wheel"}, SampleSameTs)

\* The deltas: full samples, the control values only, the motion only.
SyncDeltas ==
    Samples \cup {WheelDelta, Partial({"timestamp", "pos", "vel"}, SampleOlder)}

\* What chat.message hands to the subscriber: undefined, "", or a text that
\* JSON.parse accepts or rejects.
AbsentPayload == [data |-> "absent", parses |-> FALSE, value |-> Junk]
EmptyPayload == [data |-> "empty", parses |-> FALSE, value |-> Junk]
Garbage == [data |-> "text", parses |-> FALSE, value |-> Junk]
JsonOf(v) == [data |-> "text", parses |-> TRUE, value |-> v]

Payloads ==
    {AbsentPayload, EmptyPayload, Garbage, JsonOf(Junk)} \cup {JsonOf(x) : x \in Samples}

\* The users of a pull-server-presence or sync-presence message: nobody, or
\* another player, alone or with the local player.
UsersMaps ==
    {<<>>} \cup {[i \in S |-> IF i = selfId THEN SampleB ELSE x] :
                    S \in {Ids \ {selfId}, Ids}, x \in Samples}

\* The users of a sync-presence message, with partial samples.
DeltaMaps ==
    {<<>>} \cup {[i \in S |-> IF i = selfId THEN SampleB ELSE x] :
                    S \in {Ids \ {selfId}, Ids}, x \in SyncDeltas}

Range(q) == {q[k] : k \in DOMAIN q}

\* Object.keys, Array.from(map.keys()): the keys as a list.
RECURSIVE SeqOf(_)
SeqOf(S) ==
    IF S = {} THEN <<>>
    ELSE LET x == CHOOSE y \in S : TRUE IN <<x>> \o SeqOf(S \ {x})

With(f, k, v) == [i \in DOMAIN f \cup {k} |-> IF i = k THEN v ELSE f[i]]

Without(f, k) == [i \in DOMAIN f \ {k} |-> f[i]]

\* Object.entries(g).forEach(([id, presence]) => f[id] = presence)
Merge(f, g) == [i \in DOMAIN f \cup DOMAIN g |-> IF i \in DOMAIN g THEN g[i] ELSE f[i]]

\* carVectors of useMemo and the position of a new THREE.Group.
FreshEntry ==
    [originTimestamp |-> 0, positionCurrent |-> 0, velocity |-> 0, position |-> 0,
     wheel |-> 0, elapsed |-> 0, captured |-> Junk, captures |-> 0, lastDelta |-> 0]

\* The render after playerIds changed: an OtherPlayer per id, a kept id keeps
\* its component, a new id gets a new one.
Render(ids, mounted) ==
    [i \in Range(ids) |-> IF i \in DOMAIN mounted THEN mounted[i] ELSE FreshEntry]

\* Mutant: Math.min(delta * 10, 1) replaced by 1.
LerpFactor_Snap(d) == 1000

\* Mutant: delta * 10 without Math.min.
LerpFactor_Uncapped(d) == d * 10

\* Math.min(delta * 10, 1), in thousandths, for d in ms.
LerpFactor(d) == Min(d * 10, 1000)

\* Vector3.lerp(target, alpha)
Lerp(from, to, d) == from + ((to - from) * LerpFactor(d)) \div 1000

\* Mutant: the sample is captured on every frame.
IsNewWaypoint_Always(entry, presence) == TRUE

\* Mutant: only a sample with a later timestamp is captured.
IsNewWaypoint_NewerOnly(entry, presence) ==
    entry.originTimestamp < presence.timestamp

\* carVectors.originTimestamp !== presence.timestamp
IsNewWaypoint(entry, presence) == entry.originTimestamp # presence.timestamp

\* Mutant: the control values are taken with the waypoint only.
Controls_WithWaypoint(entry, presence) ==
    IF IsNewWaypoint(entry, presence) THEN presence.wheel ELSE entry.wheel

\* carVectors.wheelRotation.current = presence.wheel.x, and the like
Controls(entry, presence) == presence.wheel

\* The useFrame callback of one OtherPlayer with its presence, d ms after the
\* last frame. A presence without vel makes Vector3.copy throw before
\* anything is written.
useFrame(entry, presence, d) ==
    IF ~presence.ok THEN entry
    ELSE LET capture == IsNewWaypoint(entry, presence)
             velocity == IF capture THEN presence.vel ELSE entry.velocity
             start == IF capture THEN presence.pos ELSE entry.positionCurrent
             positionCurrent == start + velocity * d * Unit
         IN  [originTimestamp |-> IF capture THEN presence.timestamp
                                             ELSE entry.originTimestamp,
              positionCurrent |-> positionCurrent,
              velocity |-> velocity,
              position |-> Lerp(entry.position, positionCurrent, d),
              wheel |-> Controls(entry, presence),
              elapsed |-> entry.elapsed + d,
              captured |-> IF capture THEN presence ELSE entry.captured,
              captures |-> IF capture THEN Min(entry.captures + 1, 2)
                                      ELSE entry.captures,
              lastDelta |-> d]

\* One frame: every mounted OtherPlayer whose id has a presence runs useFrame.
Frame(d) ==
    /\ DOMAIN entries # {}
    /\ \A i \in DOMAIN entries : entries[i].elapsed + d <= MaxElapsed
    /\ entries' = [i \in DOMAIN entries |->
                     IF i \in DOMAIN presenceRef
                     THEN useFrame(entries[i], presenceRef[i], d)
                     ELSE entries[i]]
    /\ UNCHANGED <<playerIds, presenceRef, remoteStates, moqSubscribed, lastApply>>

\* The step taken, and whether the same step was the last one before it
\* (frames aside), whether the incoming callbacks ran, whether an error was
\* logged.
Applied(op, id, arg, fired, logged) ==
    [op |-> op, id |-> id, arg |-> arg,
     dup |-> lastApply.op = op /\ lastApply.id = id /\ lastApply.arg = arg,
     fired |-> fired, logged |-> logged]

\* messageHandler, pull-server-presence
PullServerPresence(users) ==
    LET allUsers == Without(users, selfId)
    IN  /\ ~forceMoQ
        /\ playerIds' = SeqOf(DOMAIN allUsers)
        /\ presenceRef' = Merge(presenceRef, allUsers)
        /\ entries' = Render(playerIds', entries)
        /\ lastApply' = Applied("pull", Undefined, users, FALSE, FALSE)
        /\ UNCHANGED <<remoteStates, moqSubscribed>>

\* messageHandler, sync-presence: { ...currentP, ...presence }
SyncPresence(users) ==
    LET usersToUpdate == Without(users, selfId)
    IN  /\ ~forceMoQ
        /\ presenceRef' =
              [i \in DOMAIN presenceRef \cup DOMAIN usersToUpdate |->
                  IF i \in DOMAIN usersToUpdate
                  THEN Spread(IF i \in DOMAIN presenceRef THEN presenceRef[i] ELSE Junk,
                              usersToUpdate[i])
                  ELSE presenceRef[i]]
        /\ lastApply' = Applied("sync", Undefined, users, FALSE, FALSE)
        /\ UNCHANGED <<playerIds, remoteStates, moqSubscribed, entries>>

\* Mutant: the id is appended without the includes check.
PlayerAdded_AlwaysAppends(id, presence) ==
    /\ ~forceMoQ
    /\ lastApply' = Applied("added", id, presence, FALSE, FALSE)
    /\ playerIds' = Append(playerIds, id)
    /\ presenceRef' = With(presenceRef, id, presence)
    /\ entries' = Render(playerIds', entries)
    /\ UNCHANGED <<remoteStates, moqSubscribed>>

\* messageHandler, player-added
PlayerAdded(id, presence) ==
    /\ ~forceMoQ
    /\ lastApply' = Applied("added", id, presence, FALSE, FALSE)
    /\ IF id = selfId
       THEN UNCHANGED <<playerIds, presenceRef, entries>>
       ELSE /\ playerIds' = IF id \in Range(playerIds) THEN playerIds
                                                      ELSE Append(playerIds, id)
            /\ presenceRef' = With(presenceRef, id, presence)
            /\ entries' = Render(playerIds', entries)
    /\ UNCHANGED <<remoteStates, moqSubscribed>>

\* messageHandler, player-removed
PlayerRemoved(id) ==
    /\ ~forceMoQ
    /\ playerIds' = SelectSeq(playerIds, LAMBDA i : i # id)
    /\ presenceRef' = Without(presenceRef, id)
    /\ entries' = Render(playerIds', entries)
    /\ lastApply' = Applied("removed", id, Junk, FALSE, FALSE)
    /\ UNCHANGED <<remoteStates, moqSubscribed>>

\* The effect of OtherPlayers once isMoQReady: the callback is registered and
\* its body runs once.
MoqEffect ==
    /\ ~moqSubscribed
    /\ moqSubscribed' = TRUE
    /\ presenceRef' = Merge(presenceRef, remoteStates)
    /\ playerIds' = SeqOf(DOMAIN remoteStates)
    /\ entries' = Render(playerIds', entries)
    /\ lastApply' = Applied("effect", Undefined, Junk, FALSE, FALSE)
    /\ UNCHANGED remoteStates

\* Mutant: the subscriber parses whatever it is handed.
Incoming_NoDataCheck(id, payload) ==
    IF ~payload.parses
    THEN /\ lastApply' = Applied("incoming", id, payload, FALSE, TRUE)
         /\ UNCHANGED <<playerIds, presenceRef, remoteStates, moqSubscribed, entries>>
    ELSE /\ remoteStates' = With(remoteStates, id, payload.value)
         /\ lastApply' = Applied("incoming", id, payload, TRUE, FALSE)
         /\ IF moqSubscribed
            THEN /\ presenceRef' = Merge(presenceRef, remoteStates')
                 /\ playerIds' = SeqOf(DOMAIN remoteStates')
                 /\ entries' = Render(playerIds', entries)
            ELSE UNCHANGED <<playerIds, presenceRef, entries>>
         /\ UNCHANGED moqSubscribed

\* The subscriber of chat.message of the Watch.Broadcast of participant id:
\* if (data), JSON.parse in a try, remoteStatesRef.set, the incoming
\* callbacks, of which OtherPlayers' copies remoteStates into presenceRef and
\* sets playerIds to its keys.
Incoming(id, payload) ==
    IF payload.data # "text"
    THEN /\ lastApply' = Applied("incoming", id, payload, FALSE, FALSE)
         /\ UNCHANGED <<playerIds, presenceRef, remoteStates, moqSubscribed, entries>>
    ELSE IF ~payload.parses
    THEN /\ lastApply' = Applied("incoming", id, payload, FALSE, TRUE)
         /\ UNCHANGED <<playerIds, presenceRef, remoteStates, moqSubscribed, entries>>
    ELSE /\ remoteStates' = With(remoteStates, id, payload.value)
         /\ lastApply' = Applied("incoming", id, payload, TRUE, FALSE)
         /\ IF moqSubscribed
            THEN /\ presenceRef' = Merge(presenceRef, remoteStates')
                 /\ playerIds' = SeqOf(DOMAIN remoteStates')
                 /\ entries' = Render(playerIds', entries)
            ELSE UNCHANGED <<playerIds, presenceRef, entries>>
         /\ UNCHANGED moqSubscribed

\* The callbacks the debug overlays hand to onIncoming.
Cbs == {"a", "b", "c"}

NoCb == "none"

\* What the subscribed callbacks do when called: each calls the unsubscribe
\* function of one subscribed callback, its own or another's, or of none.
Plans(cbs) == [Range(cbs) -> Range(cbs) \cup {NoCb}]

NoNotify == [called |-> <<>>, plan |-> <<>>, seen |-> Junk]

\* Mutant: the callbacks are called from a copy of the Set.
RECURSIVE forEach_Snapshot(_, _, _)
forEach_Snapshot(rest, plan, called) ==
    IF rest = <<>> THEN called
    ELSE forEach_Snapshot(Tail(rest), plan, Append(called, Head(rest)))

\* Set.prototype.forEach over the callbacks in insertion order: an entry
\* deleted before its turn is not visited.
RECURSIVE forEach(_, _, _)
forEach(rest, plan, called) ==
    IF rest = <<>> THEN called
    ELSE LET cb == Head(rest)
         IN  forEach(SelectSeq(Tail(rest), LAMBDA x : x # plan[cb]), plan,
                     Append(called, cb))

\* debugEvents.onIncoming(callback): Set.add
onIncoming(cb) ==
    /\ incomingCbs' = IF cb \in Range(incomingCbs) THEN incomingCbs
                                                    ELSE Append(incomingCbs, cb)
    /\ UNCHANGED notified

\* The function onIncoming returned: Set.delete
Unsubscribe(cb) ==
    /\ incomingCbs' = SelectSeq(incomingCbs, LAMBDA x : x # cb)
    /\ UNCHANGED notified

\* What remoteStatesRef holds for id when the callbacks run.
SeenByCallbacks(id) == remoteStates'[id]

\* The subscriber of chat.message with the callbacks of the overlays: after
\* remoteStatesRef.set, debugCallbacks.current.incoming.forEach(cb => cb(gameState)).
Deliver(id, payload, plan) ==
    /\ Incoming(id, payload)
    /\ IF lastApply'.fired /\ incomingCbs # <<>>
       THEN LET called == forEach(incomingCbs, plan, <<>>)
            IN  /\ notified' = [called |-> called, plan |-> plan,
                                seen |-> SeenByCallbacks(id)]
                /\ incomingCbs' =
                      SelectSeq(incomingCbs,
                                LAMBDA x : x \notin {plan[c] : c \in Range(called)})
       ELSE /\ notified' = NoNotify
            /\ incomingCbs' = incomingCbs

EventInit ==
    /\ incomingCbs = <<>>
    /\ notified = NoNotify

\* cleanupWatchBroadcast for a participant gone from the broker's list, its
\* Watch.Broadcast being stored: remoteStatesRef.current.delete(id).
MoqRemoved(id) ==
    /\ remoteStates' = Without(remoteStates, id)
    /\ lastApply' = Applied("moqremoved", id, Junk, FALSE, FALSE)
    /\ UNCHANGED <<playerIds, presenceRef, moqSubscribed, entries>>

ReconInit ==
    /\ playerIds = <<>>
    /\ presenceRef = <<>>
    /\ remoteStates = <<>>
    /\ moqSubscribed = FALSE
    /\ entries = <<>>
    /\ lastApply = [op |-> "init", id |-> Undefined, arg |-> Junk, dup |-> FALSE,
                    fired |-> FALSE, logged |-> FALSE]
    /\ forceMoQ \in BOOLEAN

\* The reconciler of a build without NEXT_PUBLIC_MOQ_FORCE that got no message yet.
ReconUnused == ReconInit /\ ~forceMoQ

OtherIds == Ids \ {selfId}

ReFrame == \E d \in Deltas : Frame(d) /\ UNCHANGED <<brokerVars, channelVars, peerVars, forceMoQ, eventVars>>
RePull ==
    \E users \in UsersMaps :
        PullServerPresence(users) /\ UNCHANGED <<brokerVars, channelVars, peerVars, forceMoQ, eventVars>>
ReSync ==
    \E users \in UsersMaps :
        SyncPresence(users) /\ UNCHANGED <<brokerVars, channelVars, peerVars, forceMoQ, eventVars>>
ReAdded ==
    \E id \in Ids, presence \in Samples :
        /\ id = selfId => presence = SampleB
        /\ PlayerAdded(id, presence)
        /\ UNCHANGED <<brokerVars, channelVars, peerVars, forceMoQ, eventVars>>
ReRemoved ==
    \E id \in Ids : PlayerRemoved(id) /\ UNCHANGED <<brokerVars, channelVars, peerVars, forceMoQ, eventVars>>
ReMoqEffect == MoqEffect /\ UNCHANGED <<brokerVars, channelVars, peerVars, forceMoQ, eventVars>>
ReIncoming ==
    \E id \in OtherIds, payload \in Payloads, plan \in Plans(incomingCbs) :
        Deliver(id, payload, plan)
            /\ UNCHANGED <<brokerVars, channelVars, peerVars, forceMoQ>>
ReMoqRemoved ==
    \E id \in OtherIds : MoqRemoved(id) /\ UNCHANGED <<brokerVars, channelVars, peerVars, forceMoQ, eventVars>>

\* sync-presence with partial samples.
ReSyncDelta ==
    \E users \in DeltaMaps :
        SyncPresence(users)
            /\ UNCHANGED <<brokerVars, channelVars, peerVars, forceMoQ, eventVars>>

\* The messages of both transports, without the frames.
PresenceNext ==
    \/ RePull \/ ReSyncDelta \/ ReAdded \/ ReRemoved
    \/ ReMoqEffect \/ ReIncoming \/ ReMoqRemoved

\* player-added with a first sample of any timestamp.
ReAddedFirst ==
    \E presence \in Samples \cup {SampleZero} :
        PlayerAdded("p2", presence)
            /\ UNCHANGED <<brokerVars, channelVars, peerVars, forceMoQ, eventVars>>

\* A participant that is added, rendered and removed.
FirstNext == ReAddedFirst \/ ReFrame \/ ReRemoved

EvSubscribe ==
    \E cb \in Cbs :
        onIncoming(cb) /\ UNCHANGED <<brokerVars, channelVars, peerVars, reconVars>>
EvUnsubscribe ==
    \E cb \in Cbs :
        Unsubscribe(cb) /\ UNCHANGED <<brokerVars, channelVars, peerVars, reconVars>>

EvIncoming ==
    \E payload \in {EmptyPayload, JsonOf(SampleB)}, plan \in Plans(incomingCbs) :
        Deliver("p2", payload, plan)
            /\ UNCHANGED <<brokerVars, channelVars, peerVars, forceMoQ>>

EventNext == EvSubscribe \/ EvUnsubscribe \/ EvIncoming

ReconNext ==
    \/ ReFrame \/ RePull \/ ReSync \/ ReAdded \/ ReRemoved
    \/ ReMoqEffect \/ ReIncoming \/ ReMoqRemoved

(***************************************************************************)
(* Specifications                                                          *)
(***************************************************************************)
Init == BrokerInit /\ ChannelInit /\ PeerInit /\ ReconInit /\ EventInit

Next ==
    \/ BrokerNext \/ BindingNext \/ ChannelNext \/ PeerNext \/ ReconNext \/ PresenceNext \/ FirstNext
    \/ EventNext

Spec == Init /\ [][Next]_vars

\* The broker alone, beside a channel that is never used.
InitBroker == BrokerInit /\ ChannelUnused /\ PeerUnused /\ ReconUnused /\ EventInit

SpecBroker == InitBroker /\ [][BrokerNext]_vars

\* The broker with the record of the connections that joined as each id.
SpecBinding == InitBroker /\ [][BindingNext]_vars

\* The channel alone, beside a broker nobody connects to.
InitChannel == BrokerInit /\ ChannelInit /\ PeerUnused /\ ReconUnused /\ EventInit

SpecChannel == InitChannel /\ [][ChannelNext]_vars

\* The hook alone, beside a broker and a channel that are not used: the broker
\* updates it receives are inputs.
InitPeer == BrokerInit /\ ChannelUnused /\ PeerInit /\ ReconUnused /\ EventInit

SpecPeer == InitPeer /\ [][PeerNext]_vars

\* The reconciler alone: the messages of both transports and the frames are
\* inputs.
InitRecon == BrokerInit /\ ChannelUnused /\ PeerUnused /\ ReconInit /\ EventInit

SpecRecon == InitRecon /\ [][ReconNext]_vars

\* The presence map and the player list under the messages of both
\* transports, the deltas of sync-presence being partial samples.
SpecPresence == InitRecon /\ [][PresenceNext]_vars

\* One participant from its first sample on.
SpecFirst == InitRecon /\ [][FirstNext]_vars

\* The callbacks of debugEvents alone, with the payloads they are told of.
InitEvents == BrokerInit /\ ChannelUnused /\ PeerUnused /\ ReconUnused /\ EventInit

SpecEvents == InitEvents /\ [][EventNext]_vars

\* The channel when no attempt ever succeeds. A pending timer fires
\* (effect.timer) and an attempt in flight resolves: both are weakly fair.
InitFailing == BrokerInit /\ ChannelInit /\ PeerUnused /\ ReconUnused /\ EventInit /\ url # Undefined

SpecFailing ==
    /\ InitFailing
    /\ [][FailingNext]_vars
    /\ WF_vars(ChTimerFire)
    /\ WF_vars(ChConnectFail)
(***************************************************************************)
(* Discovery Broker: properties                                            *)
(***************************************************************************)
\* The join messages, and those that are not well-formed broker messages.
JoinMessages == {m \in Messages : m.parses /\ m.type = "join"}

Malformed == {m \in Messages : ~WellFormed(m)}

\* The action properties below name a handler's step by the handler's own
\* action formula; the conjuncts on last' before it repeat what that formula
\* says of last' and only spare TLC its evaluation on the other steps.

\* The ids an update lists, and every update a connection was just sent.
UpdateIds(update) == Keys(update.participants)

SentTo(c) == {sent[c][k] : k \in 1..Len(sent[c])}

IdSeq(parts) == [k \in 1..Len(parts) |-> parts[k].id]

\* C1: an id whose most recent join/leave message was a leave is neither in
\* the registry nor in the participant list of any broker_update sent since.
C1_LeftParticipantNotListed ==
    \A i \in Ids :
        lastEvent[i] = "leave" =>
            /\ ~MapHas(participants, i)
            /\ \A c \in Conns : \A u \in SentTo(c) : i \notin UpdateIds(u)

\* C1 witness: p1 has left, p2 is registered, and the update broadcast by the
\* leave reached an open connection.
C1_Witness ==
    /\ lastEvent["p1"] = "leave"
    /\ last.op = "message" /\ last.msg = IdMsg("leave", "p1")
    /\ MapHas(participants, "p2")
    /\ \E c \in connections : \E u \in SentTo(c) : UpdateIds(u) = {"p2"}

C3_CloseIsImplicitLeave ==
    [][\A c \in Conns :
          (last'.op = "close" /\ last'.conn = c /\ onClose(c)
              /\ Truthy(connState[c])) =>
              /\ ~MapHas(participants', connState[c])
              /\ MapHas(participants, connState[c]) =>
                    /\ Keys(participants') = Keys(participants) \ {connState[c]}
                    /\ \A d \in connections' :
                          sent'[d] = <<BrokerUpdate(participants', connections')>>
      ]_vars

\* C3 witness: c1 joined p1, no leave for p1 was the latest event, c1 closed,
\* and the remaining connection was sent a registry without p1.
C3_Witness ==
    /\ last.op = "close" /\ last.conn = "c1" /\ last.msg.id = "p1"
    /\ lastEvent["p1"] = "join"
    /\ "c2" \in connections
    /\ Len(sent["c2"]) = 1
    /\ "p1" \notin UpdateIds(sent["c2"][1])
    /\ MapHas(participants, "p2")

\* C4 as stated: a join message applied a second time, right after itself,
\* changes nothing of the registry but the lastSeen of its entry (joinedAt is
\* kept), and the entry stays single.
C4_JoinIdempotent ==
    [][\A c \in Conns, m \in JoinMessages :
          (last.op = "message" /\ last.msg = m /\ last'.msg = m /\ last'.conn = c
              /\ onMessage(m, c)) =>
              /\ Len(participants') = Len(participants)
              /\ \A k \in 1..Len(participants) :
                    IF participants[k].id = m.id
                    THEN participants'[k] =
                            [participants[k] EXCEPT !.lastSeen = participants'[k].lastSeen]
                    ELSE participants'[k] = participants[k]
      ]_vars

\* C5: a join for an id that is not registered sends every open connection
\* one broker_update whose list is the full registry, the new id included.
C5_NewJoinBroadcast ==
    [][\A c \in Conns, m \in JoinMessages :
          (last'.msg = m /\ last'.conn = c /\ ~MapHas(participants, m.id)
              /\ onMessage(m, c)) =>
              /\ MapHas(participants', m.id)
              /\ \A d \in connections :
                    /\ Len(sent'[d]) = 1
                    /\ sent'[d][1].type = "broker_update"
                    /\ sent'[d][1].participants = participants'
      ]_vars

\* C5 witness: p2 joined as a new id while both connections were open, and
\* both were sent the list [p1, p2].
C5_Witness ==
    /\ last.op = "message" /\ last.msg.type = "join" /\ last.msg.id = "p2"
    /\ connections = Conns
    /\ \A d \in Conns :
          Len(sent[d]) = 1 /\ IdSeq(sent[d][1].participants) = <<"p1", "p2">>
    /\ participants[2].joinedAt = now /\ participants[1].joinedAt < now

\* C6: a leave for a registered id removes that entry and no other, keeps
\* every other entry as it was, and sends all connections the updated
\* registry; a leave for an id that is not registered changes nothing.
C6_LeaveRemovesExactlyOne ==
    [][\A c \in Conns, i \in Ids \cup {Undefined} :
          (last'.msg = IdMsg("leave", i) /\ last'.conn = c
              /\ onMessage(IdMsg("leave", i), c)) =>
              IF MapHas(participants, i)
              THEN /\ Keys(participants') = Keys(participants) \ {i}
                   /\ Len(participants') = Len(participants) - 1
                   /\ \A k \in Keys(participants') :
                         MapGet(participants', k) = MapGet(participants, k)
                   /\ \A d \in connections :
                         sent'[d] = <<BrokerUpdate(participants', connections)>>
              ELSE participants' = participants
      ]_vars

\* C6 witness: p1 left while p2 was registered; p2's entry is all that is left
\* and both connections were sent it.
C6_Witness ==
    /\ last.op = "message" /\ last.msg = IdMsg("leave", "p1")
    /\ IdSeq(participants) = <<"p2">>
    /\ connections = Conns
    /\ \A d \in Conns : sent[d] = <<BrokerUpdate(participants, connections)>>

\* C7: a heartbeat changes nothing but the lastSeen of the entry with its id:
\* same ids, same other fields, same connections and bindings, nothing sent,
\* and no entry appears for an id that is not registered.
C7_HeartbeatTouchesLastSeenOnly ==
    [][\A c \in Conns, i \in Ids \cup {Undefined} :
          (last'.msg = IdMsg("heartbeat", i) /\ last'.conn = c
              /\ onMessage(IdMsg("heartbeat", i), c)) =>
              /\ IdSeq(participants') = IdSeq(participants)
              /\ \A k \in 1..Len(participants) :
                    IF participants[k].id = i
                    THEN participants'[k] = [participants[k] EXCEPT !.lastSeen = now]
                    ELSE participants'[k] = participants[k]
              /\ sent' = NoSends
              /\ connState' = connState /\ connections' = connections
      ]_vars

\* C7 witness: a heartbeat for p1 moved its lastSeen past its joinedAt while p2
\* was registered too, and nothing was sent.
C7_Witness ==
    /\ last.op = "message" /\ last.msg = IdMsg("heartbeat", "p1")
    /\ MapHas(participants, "p1") /\ MapHas(participants, "p2")
    /\ MapGet(participants, "p1").lastSeen > MapGet(participants, "p1").joinedAt
    /\ connections = Conns
    /\ sent = NoSends

\* C8: the connect handler itself sends the new connection one broker_update
\* carrying the registry as it is at connect time, and changes no membership.
C8_SnapshotOnConnect ==
    [][\A c \in Conns :
          (last'.op = "connect" /\ last'.conn = c /\ onConnect(c)) =>
              /\ participants' = participants
              /\ Len(sent'[c]) = 1
              /\ sent'[c][1].type = "broker_update"
              /\ sent'[c][1].participants = participants
              /\ \A d \in Conns \ {c} : sent'[d] = <<>>
      ]_vars

\* C8 witness: c2 connected while p1 was registered and was sent [p1] at once.
C8_Witness ==
    /\ last.op = "connect" /\ last.conn = "c2"
    /\ Len(sent["c2"]) = 1
    /\ IdSeq(sent["c2"][1].participants) = <<"p1">>
    /\ sent["c1"] = <<>>

\* C9 as stated: a message that is not a well-formed broker message changes
\* no registry entry and sends nothing.
C9_MalformedIsDropped ==
    [][\A c \in Conns, m \in Malformed :
          (last'.msg = m /\ last'.conn = c /\ onMessage(m, c)) =>
              /\ participants' = participants
              /\ sent' = NoSends
      ]_vars
(***************************************************************************)
(* Resilient Channel: properties                                           *)
(***************************************************************************)
\* C10: #delay never exceeds maxDelay; after N failures in a row it is
\* delay doubled N times and capped, so each failure doubles it up to the cap
\* and never lowers it; only a successful connect lowers it, to delay.
C10_BackoffMonotoneCapped ==
    /\ [](/\ currentDelay <= maxDelay
          /\ currentDelay = Min(delay * 2^failures, maxDelay)
          /\ status = "connected" => currentDelay = delay)
    /\ [][/\ (ConnectFail \/ ConnectionLost) =>
                /\ currentDelay' >= currentDelay
                /\ currentDelay' = Min(currentDelay * 2, maxDelay)
          /\ ConnectOk => currentDelay' = delay
          /\ currentDelay' < currentDelay => ConnectOk
      ]_vars

\* C10 witness: MaxFailures failures in a row, the last ones at the cap, and
\* another attempt under way.
C10_Witness ==
    /\ failures = MaxFailures
    /\ currentDelay = maxDelay
    /\ status = "connecting"

\* C11: a channel with an endpoint whose attempts all fail reaches
\* #delay = maxDelay unless it is closed or unsupported, stays at maxDelay,
\* has a retry timer pending after every failure, and every failure is
\* followed by another connect attempt unless the channel is closed.
C11_RetriesForeverAtCap ==
    /\ <>(currentDelay = maxDelay \/ closed \/ ~supported)
    /\ [][currentDelay = maxDelay => currentDelay' = maxDelay]_vars
    /\ [](chLast = "fail" /\ ~closed => timer /\ status = "disconnected")
    /\ (chLast = "fail") ~> (status = "connecting" \/ closed)

\* C11 witness: the retry timer fired at the cap and started another attempt.
C11_Witness ==
    /\ currentDelay = maxDelay
    /\ failures = MaxFailures
    /\ chLast = "timer"
    /\ status = "connecting"
    /\ ~closed

C13_AtMostOneConnection ==
    /\ [](/\ leaked = 0
          /\ status = "connecting" => established = Undefined
          /\ established # Undefined => status = "connected" /\ established = url)
    /\ [][\A u \in Urls \cup {Undefined} :
            (~closed /\ status \in {"connecting", "connected"} /\ SetUrl(u)) =>
                /\ established' = Undefined
                /\ abandoned' = IF status = "connecting" THEN abandoned + 1
                                                         ELSE abandoned
                /\ status' = IF u = Undefined THEN "disconnected" ELSE "connecting"
                /\ ~timer'
      ]_vars
    /\ [][AbandonedOk => /\ leaked' = leaked
                         /\ status' = status
                         /\ established' = established]_vars

\* C13 witness: the endpoint changed during an attempt, and the old attempt
\* connected while the new one was in flight.
C13_Witness ==
    /\ ~closed
    /\ chLast = "lateok"
    /\ status = "connecting"
    /\ abandoned = 0
    /\ leaked = 0

\* C14: without WebTransport the channel is unsupported in every state, has
\* made no attempt (none in flight, none cancelled, none failed, no
\* connection) and holds no retry timer, whatever steps were taken.
C14_UnsupportedIsTerminal ==
    ~supported =>
        /\ status = "unsupported"
        /\ ~timer
        /\ established = Undefined
        /\ abandoned = 0
        /\ failures = 0
        /\ currentDelay = delay

\* C14 witness: without WebTransport, an endpoint was set on the open channel.
C14_Witness ==
    /\ ~supported
    /\ ~closed
    /\ chLast = "seturl"
    /\ url \in Urls
    /\ status = "unsupported"

(***************************************************************************)
(* Peer Session Manager: properties                                        *)
(***************************************************************************)
\* C15: for every participant id at most one Watch.Broadcast is open, and
\* once no call for the id is waiting, the open ones are exactly the one
\* remoteBroadcastsRef holds for it, if any.
C15_AtMostOneSubscription ==
    \A i \in Ids :
        /\ openSubs[i] <= 1
        /\ awaiting[i] = 0 =>
              openSubs[i] = IF i \in remoteBroadcasts THEN 1 ELSE 0

\* C16: no retry timer is pending for a participant that is not listed, and
\* no createWatchBroadcast call is made for one.
C16_RetryCancelledOnRemoval ==
    /\ \A t \in timers : t.id \in IdsOf(participantsRef)
    /\ \A a \in lastOpens : a.id \in IdsOf(participantsRef)

\* C17: the step that makes the transport ready calls createWatchBroadcast
\* for every participant listed at that moment.
C17_OpenedOnceReady ==
    [][(~isMoQReady /\ isMoQReady') =>
          \A k \in DOMAIN participantsRef :
              \E a \in lastOpens' : a.id = participantsRef[k].id
      ]_vars

\* C18: no call creates a Watch.Broadcast for the local id or for the local
\* path, and none is open, waiting or stored under the local id.
C18_NeverSubscribesToSelf ==
    /\ \A a \in lastOpens :
          a.outcome = "created" => a.id # selfId /\ a.moqPath # ourPath
    /\ openSubs[selfId] = 0
    /\ awaiting[selfId] = 0
    /\ selfId \notin remoteBroadcasts

\* C18 witness: with the transport ready, an update listed another id with
\* the local path, and the call for it returned before creating anything.
C18_Witness ==
    /\ peerLast = "update"
    /\ isMoQReady
    /\ \E a \in lastOpens :
          /\ a.id # selfId
          /\ a.moqPath = ourPath
          /\ a.outcome = "selfpath"
    /\ \A i \in Ids : openSubs[i] = 0

\* C19: a call that creates or fails is at most the 3rd of its chain, and no
\* timer is pending that would start a 4th.
C19_AtMostThreeAttempts ==
    /\ \A a \in lastOpens :
          a.outcome \in {"created", "failed"} => a.retryCount + 1 <= 3
    /\ \A t \in timers : t.retryCount + 2 <= 3

\* C20: the timer set after the call with retry count n waits 1000 * 2^n ms.
C20_RetryDelayDoubles ==
    \A t \in timers : t.delay = 1000 * 2^(t.retryCount)

\* C21: once the hook is unmounted no checkConnection wait, no 100 ms wait
\* and no retry timer is pending, and the Connection, the Publish.Broadcast
\* and every Watch.Broadcast are closed.
C21_TeardownLeavesNothing ==
    session.unmounted =>
        /\ ~session.polling
        /\ timers = {}
        /\ \A i \in Ids : awaiting[i] = 0 /\ openSubs[i] = 0
        /\ session.connection # "open"
        /\ session.localBroadcast # "open"

(***************************************************************************)
(* Presence Reconciler: properties                                         *)
(***************************************************************************)
Abs(x) == IF x < 0 THEN -x ELSE x

\* The distance between the predicted and the smoothed position of an entry.
Dist(entry) == Abs(entry.positionCurrent - entry.position)

\* A frame of d ms runs useFrame for i without capturing a new waypoint.
Extrapolates(i, d) ==
    /\ Frame(d)
    /\ i \in DOMAIN entries
    /\ i \in DOMAIN presenceRef
    /\ presenceRef[i].ok
    /\ presenceRef[i].timestamp = entries[i].originTimestamp

\* A frame of d ms runs useFrame for i and captures the stored sample.
Captures(i, d) ==
    /\ Frame(d)
    /\ i \in DOMAIN entries
    /\ i \in DOMAIN presenceRef
    /\ presenceRef[i].ok
    /\ presenceRef[i].timestamp # entries[i].originTimestamp

\* C22: the step that removes a participant, player-removed or the leaving
\* of the broker's list by a participant whose payloads were being copied,
\* leaves no stored sample for it, takes it out of playerIds and unmounts its
\* OtherPlayer.
C22_RemovedIsAbsent ==
    [][\A i \in OtherIds :
          (/\ lastApply'.op \in {"removed", "moqremoved"}
           /\ lastApply'.id = i
           /\ \/ PlayerRemoved(i)
              \/ i \in DOMAIN remoteStates /\ moqSubscribed /\ MoqRemoved(i)) =>
              /\ i \notin DOMAIN presenceRef'
              /\ i \notin Range(playerIds')
              /\ i \notin DOMAIN entries'
      ]_vars

\* C23: a message that repeats the last one, frames aside, changes nothing
\* of the stored samples, the player list and the entries; and a frame that
\* finds the timestamp it has captured keeps the velocity and moves the
\* predicted position on from where it was.
C23_DuplicateSampleIsNoOp ==
    /\ [][(/\ lastApply'.dup
            /\ ~lastApply.dup
            /\ lastApply'.op \in {"pull", "sync", "added", "incoming"}) =>
              UNCHANGED <<playerIds, presenceRef, remoteStates, entries>>
        ]_vars
    /\ [][\A i \in OtherIds, d \in Deltas :
            Extrapolates(i, d) =>
                /\ entries'[i].originTimestamp = entries[i].originTimestamp
                /\ entries'[i].velocity = entries[i].velocity
                /\ entries'[i].positionCurrent =
                      entries[i].positionCurrent + entries[i].velocity * d * Unit
                /\ entries'[i].position =
                      Lerp(entries[i].position, entries'[i].positionCurrent, d)
        ]_vars

\* C23 witness: SampleB came in twice over the subscription, was captured
\* once, and MaxElapsed ms of frames have run.
C23_Witness ==
    /\ lastApply.dup
    /\ lastApply.op = "incoming"
    /\ lastApply.arg = JsonOf(SampleB)
    /\ "p2" \in DOMAIN entries
    /\ entries["p2"].captured = SampleB
    /\ entries["p2"].captures = 1
    /\ entries["p2"].elapsed = MaxElapsed

\* C24: the originTimestamp of a mounted entry never decreases.
C24_OriginTimestampMonotone ==
    [][\A i \in DOMAIN entries \cap DOMAIN entries' :
          entries'[i].originTimestamp >= entries[i].originTimestamp
      ]_vars

\* C25: a payload that JSON.parse rejects, or that parses to something that
\* is no PresenceType, changes no stored state and runs no incoming callback.
C25_MalformedPayloadDropped ==
    [][\A i \in OtherIds, payload \in {Garbage, JsonOf(Junk)} :
          (/\ lastApply'.op = "incoming"
           /\ lastApply'.id = i
           /\ lastApply'.arg = payload
           /\ Incoming(i, payload)) =>
              /\ UNCHANGED <<playerIds, presenceRef, remoteStates, entries>>
              /\ ~lastApply'.fired
      ]_vars

\* C26: an undefined or empty payload changes no stored state, logs no error
\* and runs no incoming callback.
C26_EmptyPayloadIsNoData ==
    [][\A i \in OtherIds, payload \in {AbsentPayload, EmptyPayload} :
          (/\ lastApply'.op = "incoming"
           /\ lastApply'.id = i
           /\ lastApply'.arg = payload
           /\ Incoming(i, payload)) =>
              /\ UNCHANGED <<playerIds, presenceRef, remoteStates, entries>>
              /\ ~lastApply'.fired
              /\ ~lastApply'.logged
      ]_vars

\* C26 witness: an empty payload came in for a participant whose sample is
\* stored and rendered.
C26_Witness ==
    /\ lastApply.op = "incoming"
    /\ lastApply.arg = EmptyPayload
    /\ lastApply.id = "p2"
    /\ "p2" \in DOMAIN remoteStates
    /\ remoteStates["p2"] = SampleB
    /\ "p2" \in DOMAIN presenceRef
    /\ presenceRef["p2"] = SampleB
    /\ "p2" \in DOMAIN entries

\* C27: a new entry that captured SampleB (position 0, 1 mm/ms) and ran 200
\* ms of frames is strictly between 0 and 200 mm.
C27_ScenarioB ==
    \A i \in DOMAIN entries :
        (/\ entries[i].captured = SampleB
         /\ entries[i].captures = 1
         /\ entries[i].elapsed = 200) =>
            /\ entries[i].position > 0
            /\ entries[i].position < 200 * Unit

\* C27 amended: it is past 0; it is short of 200 mm if the last frame took
\* less than 100 ms, and at 200 mm exactly if it took 100 ms or more.
C27_ScenarioBByLastFrame ==
    \A i \in DOMAIN entries :
        (/\ entries[i].captured = SampleB
         /\ entries[i].captures = 1
         /\ entries[i].elapsed = 200) =>
            /\ entries[i].position > 0
            /\ entries[i].lastDelta < 100 => entries[i].position < 200 * Unit
            /\ entries[i].lastDelta >= 100 => entries[i].position = 200 * Unit

\* C27 witness: 200 ms after SampleB, the last frame having taken 50 ms.
C27_Witness ==
    /\ "p2" \in DOMAIN entries
    /\ entries["p2"].captured = SampleB
    /\ entries["p2"].captures = 1
    /\ entries["p2"].elapsed = 200
    /\ entries["p2"].lastDelta = 50
    /\ entries["p2"].position > 0
    /\ entries["p2"].position < 200 * Unit

\* C28: no frame without a new sample leaves a distance above 0 as it was:
\* frames of that length would keep it there for ever.
C28_DistanceConverges ==
    [][\A i \in OtherIds, d \in Deltas :
          (Extrapolates(i, d) /\ Dist(entries[i]) > 0) =>
              Dist(entries'[i]) # Dist(entries[i])
      ]_vars

\* C28 amended: a frame of d ms that leaves an entry at velocity 0 leaves it
\* at 1 - min(d / 100, 1) times the distance there was between the smoothed
\* and the predicted position; without a new sample the predicted position
\* stays in place, so that the distance itself is multiplied by that factor.
C28_ConvergesAtRest ==
    [][\A i \in OtherIds, d \in Deltas :
          ((Extrapolates(i, d) \/ Captures(i, d)) /\ entries'[i].velocity = 0) =>
              /\ Dist(entries'[i]) * 1000 =
                    Abs(entries'[i].positionCurrent - entries[i].position)
                        * (1000 - Min(d * 10, 1000))
              /\ Extrapolates(i, d) =>
                    entries'[i].positionCurrent = entries[i].positionCurrent
      ]_vars

\* C28 witness: an entry at rest, four frames of 50 ms after its sample,
\* still short of the predicted position.
C28_Witness ==
    /\ "p2" \in DOMAIN entries
    /\ entries["p2"].captured = SampleSameTs
    /\ entries["p2"].captures = 1
    /\ entries["p2"].velocity = 0
    /\ entries["p2"].elapsed = 200
    /\ entries["p2"].lastDelta = 50
    /\ Dist(entries["p2"]) > 0

\* C29: a frame that finds another timestamp than the captured one takes the
\* sample's velocity, timestamp and position and extrapolates from that
\* position; the originTimestamp of an entry is the timestamp of the sample
\* it captured last.
C29_NewTimestampIsCaptured ==
    /\ [][\A i \in OtherIds, d \in Deltas :
            Captures(i, d) =>
                /\ entries'[i].originTimestamp = presenceRef[i].timestamp
                /\ entries'[i].velocity = presenceRef[i].vel
                /\ entries'[i].positionCurrent =
                      presenceRef[i].pos + presenceRef[i].vel * d * Unit
                /\ entries'[i].captured = presenceRef[i]
        ]_vars
    /\ [](\A i \in DOMAIN entries :
            entries[i].captures > 0 =>
                entries[i].originTimestamp = entries[i].captured.timestamp)

\* C29 witness: SampleOlder was captured after another sample.
C29_Witness ==
    /\ "p2" \in DOMAIN entries
    /\ entries["p2"].captures = 2
    /\ entries["p2"].captured = SampleOlder
    /\ entries["p2"].originTimestamp = 50
    /\ entries["p2"].velocity = 1

\* C30: after a frame that ran useFrame for an entry, its control value is
\* that of the stored sample, captured or not.
C30_ControlsFollowLatestSample ==
    [][\A i \in OtherIds, d \in Deltas :
          (Extrapolates(i, d) \/ Captures(i, d)) =>
              entries'[i].wheel = presenceRef[i].wheel
      ]_vars

\* C30 witness: SampleB is the waypoint, and the control value is that of
\* the sample of the same timestamp stored after it.
C30_Witness ==
    /\ "p2" \in DOMAIN entries
    /\ "p2" \in DOMAIN presenceRef
    /\ presenceRef["p2"] = SampleSameTs
    /\ entries["p2"].captured = SampleB
    /\ entries["p2"].captures = 1
    /\ entries["p2"].velocity = 1
    /\ entries["p2"].wheel = 1

(***************************************************************************)
(* The two transports, the deltas and the player list: properties          *)
(***************************************************************************)
\* The messages of the primary transport, and the updates of the alternate.
PrimaryOps == {"pull", "sync", "added", "removed"}

AlternateOps == {"effect", "incoming"}

\* C31: a step that changes the presence map or the player list is a
\* message of the primary transport only while the callback of the alternate
\* transport is not registered, and an update of the alternate transport
\* only once it is.
C31_SingleActiveTransport ==
    [][(presenceRef' # presenceRef \/ playerIds' # playerIds) =>
          /\ lastApply'.op \in PrimaryOps => ~moqSubscribed
          /\ lastApply'.op \in AlternateOps => moqSubscribed'
      ]_vars

\* C33: a sync-presence message leaves the player list and the entries as
\* they are, leaves the sample of every participant it does not name as it
\* is, gives each participant it names the fields of its delta and leaves
\* that participant's other fields as they are, and stores nothing for the
\* local participant.
C33_DeltaTouchesItsFieldsOnly ==
    [][\A users \in DeltaMaps :
          (/\ lastApply'.op = "sync"
           /\ lastApply'.arg = users
           /\ SyncPresence(users)) =>
              /\ UNCHANGED <<playerIds, entries>>
              /\ selfId \notin DOMAIN presenceRef'
              /\ DOMAIN presenceRef' = DOMAIN presenceRef \cup (DOMAIN users \ {selfId})
              /\ \A i \in DOMAIN presenceRef \ DOMAIN users :
                    presenceRef'[i] = presenceRef[i]
              /\ \A i \in DOMAIN users \ {selfId}, f \in Fields :
                    /\ f \in users[i].has =>
                          /\ f \in presenceRef'[i].has
                          /\ presenceRef'[i][f] = users[i][f]
                    /\ (f \notin users[i].has /\ i \in DOMAIN presenceRef) =>
                          /\ f \in presenceRef'[i].has <=> f \in presenceRef[i].has
                          /\ presenceRef'[i][f] = presenceRef[i][f]
                    /\ (f \notin users[i].has /\ i \notin DOMAIN presenceRef) =>
                          f \notin presenceRef'[i].has
      ]_vars

\* C33 witness: the control values of a delta were stored over SampleB, whose
\* position, velocity and timestamp stay; the message named the local
\* participant too.
C33_Witness ==
    /\ lastApply.op = "sync"
    /\ selfId \in DOMAIN lastApply.arg
    /\ lastApply.arg["p2"] = WheelDelta
    /\ "p2" \in DOMAIN presenceRef
    /\ presenceRef["p2"] = Sample(100, 0, 1, 1)
    /\ playerIds = <<"p2">>

\* C37: the player list holds no id twice and never the local participant's.
C37_PlayerListIsASetOfOthers ==
    /\ selfId \notin Range(playerIds)
    /\ \A j, k \in DOMAIN playerIds : j # k => playerIds[j] # playerIds[k]

\* C37 witness: player-added came twice for p2, for which the alternate
\* transport holds a state too, and p2 is listed once.
C37_Witness ==
    /\ lastApply.op = "added"
    /\ lastApply.id = "p2"
    /\ lastApply.dup
    /\ playerIds = <<"p2">>
    /\ "p2" \in DOMAIN remoteStates

\* C38: the first frame of an entry whose participant has a sample captures
\* that sample, whatever its timestamp.
C38_FirstSampleIsCaptured ==
    [][\A i \in OtherIds, d \in Deltas :
          (/\ Frame(d)
           /\ i \in DOMAIN entries
           /\ i \in DOMAIN presenceRef
           /\ presenceRef[i].ok
           /\ entries[i].captures = 0) =>
              /\ entries'[i].captures = 1
              /\ entries'[i].captured = presenceRef[i]
              /\ entries'[i].velocity = presenceRef[i].vel
              /\ entries'[i].positionCurrent = presenceRef[i].pos + presenceRef[i].vel * d * Unit
      ]_vars

(***************************************************************************)
(* Incoming-payload subscribers: properties                                *)
(***************************************************************************)
\* A payload the subscriber of chat.message applies.
IsApplied(payload) == payload.data = "text" /\ payload.parses

\* The plan the callbacks followed in the step, as notified' records it; no
\* callback runs when none is subscribed or the payload is not applied.
PlanOfStep ==
    IF DOMAIN notified'.plan = Range(incomingCbs) THEN notified'.plan
    ELSE [c \in Range(incomingCbs) |-> NoCb]

\* C32: a payload that is applied is stored before the callbacks see it; the
\* callbacks called are subscribed ones, each called once, none of them after
\* a callback called before it has unsubscribed it, and every callback that
\* is still subscribed afterwards was called. A payload that is not applied
\* calls nobody.
C32_SubscribersNotifiedOnce ==
    [][(/\ lastApply'.op = "incoming"
        /\ Deliver("p2", lastApply'.arg, PlanOfStep)) =>
           LET called == notified'.called
               payload == lastApply'.arg
               plan == PlanOfStep
           IN  IF IsApplied(payload)
               THEN /\ remoteStates'["p2"] = payload.value
                    /\ called # <<>> => notified'.seen = payload.value
                    /\ \A j, k \in DOMAIN called : j # k => called[j] # called[k]
                    /\ Range(called) \subseteq Range(incomingCbs)
                    /\ Range(incomingCbs') \subseteq Range(called)
                    /\ \A j, k \in DOMAIN called :
                          j < k => plan[called[j]] # called[k]
                    /\ \A c \in Range(incomingCbs) \ Range(called) :
                          \E j \in DOMAIN called : plan[called[j]] = c
               ELSE /\ called = <<>>
                    /\ incomingCbs' = incomingCbs
      ]_vars

\* C32 witness: of the subscribers a, b, c the first unsubscribed the second
\* while it was notified of SampleB; b was not called and c was.
C32_Witness ==
    /\ lastApply.op = "incoming"
    /\ lastApply.fired
    /\ notified.called = <<"a", "c">>
    /\ notified.plan["a"] = "b"
    /\ notified.seen = SampleB
    /\ incomingCbs = <<"a", "c">>

(***************************************************************************)
(* Discovery Broker: participants and their connections                    *)
(***************************************************************************)
\* C34: every registered participant has an open connection that joined
\* with its id.
C34_RegisteredIsBound ==
    \A i \in Keys(participants) : joinedBy[i] # {}

\* C35: when two open connections have joined with the id of a registered
\* participant, the close of one of them, or a leave it sends for that id,
\* leaves the participant registered.
C35_SharedIdSurvivesOneClose ==
    [][\A i \in Ids, c \in Conns :
          (/\ i \in Keys(participants)
           /\ c \in joinedBy[i]
           /\ joinedBy[i] \ {c} # {}
           /\ last'.conn = c
           /\ \/ last'.op = "close" /\ onClose(c)
              \/ /\ last'.op = "message"
                 /\ last'.msg = IdMsg("leave", i)
                 /\ onMessage(IdMsg("leave", i), c)) =>
              i \in Keys(participants')
      ]_vars

(***************************************************************************)
(* Peer Session Manager: subscriptions of participants no longer listed    *)
(***************************************************************************)
\* C36: for an id that the last broker update does not list no
\* Watch.Broadcast is open and remoteBroadcastsRef holds none.
C36_NothingOpenForAbsent ==
    \A i \in Ids \ IdsOf(participantsRef) :
        /\ openSubs[i] = 0
        /\ i \notin remoteBroadcasts
====
